---- MODULE Spec2Model ----
(***************************************************************************)
(* grpc-cache: the LRU+TTL+CAS cache engine (lru.Cache) and the request    *)
(* dispatcher (server.CacheServer.Call) that serialises access to it.      *)
(*                                                                         *)
(* Byte slices are sequences of bytes, modelled by content: every call is  *)
(* handed its own buffer, as the dispatcher does with decoded requests.    *)
(* A uint64 is a sequence of ten base-128 limbs, least significant first   *)
(* (the tenth limb holds bit 63 only), so arithmetic keeps its 64 bits.    *)
(* Time is in nanoseconds, as time.Duration is.                            *)
(***************************************************************************)
EXTENDS Integers, Sequences, FiniteSets, TLC

VARIABLES
    c,          \* the lru.Cache: maxEntries, evictionHandler, lruList, cache, casID
    now,        \* the wall clock read by time.Now() and time.Since()
    panicked,   \* a nil dereference has ended the program
    last,       \* the last engine operation and what it returned
    recent,     \* history: stored keys, most recently successfully touched first
    written,    \* history: per key, what its last successful mutation stored
    assigned,   \* history: the CAS version stamped by the last successful mutation
    mutex,      \* the sync.Mutex embedded in the Cache: its holder, or 0
    pc,         \* where each client's Call stands
    req,        \* the request of each client's Call
    snap,       \* the cache as the Call holding the lock found it
    out,        \* the response each Call is about to return
    lin,        \* history: the cache as the same requests leave it, one at a time
    want,       \* history: the response each request gets, one at a time
    won         \* history: the (key, version) pairs a CAS request has succeeded with

engine == <<c, now, panicked, last, recent, written, assigned>>
server == <<mutex, pc, req, snap, out, lin, want, won>>
vars == <<engine, server>>

(***************************************************************************)
(* Bounds of the model and constants of the program                        *)
(***************************************************************************)
MaxCas == 2          \* a run hands out CAS ids up to this (one more without the clock)
MaxTicks == 2        \* the clock advances at most this many times
Second == 1000000000 \* time.Second, in nanoseconds
MaxVarintLen64 == 10 \* binary.MaxVarintLen64

AllKeys == {"a", "b", "c"}
Keys == {"a", "b"}
Nanosecond == 1
Durations == {0, Nanosecond}

ErrNil == "nil"
ErrNotFound == "ErrNotFound"
ErrExists == "ErrExists"
ErrDecode == "decode error"
ErrPanic == "panic"
LRUEviction == "LRUEviction"
TTLEviction == "TTLEviction"

(***************************************************************************)
(* uint64 arithmetic on limbs                                              *)
(***************************************************************************)
LimbBase(i) == IF i = MaxVarintLen64 THEN 2 ELSE 128

Zero64 == [i \in 1..MaxVarintLen64 |-> 0]
One64 == [i \in 1..MaxVarintLen64 |-> IF i = 1 THEN 1 ELSE 0]
Max64 == [i \in 1..MaxVarintLen64 |-> LimbBase(i) - 1]
Top64 == [i \in 1..MaxVarintLen64 |-> IF i = MaxVarintLen64 THEN 1 ELSE 0]

RECURSIVE AddFrom(_, _, _, _)
AddFrom(x, y, i, carry) ==
    IF i > MaxVarintLen64 THEN <<>>
    ELSE LET s == x[i] + y[i] + carry
         IN <<s % LimbBase(i)>> \o AddFrom(x, y, i + 1, s \div LimbBase(i))

\* n += incrementBy stopping at the largest uint64
Add64Saturating(x, y) ==
    LET s == AddFrom(x, y, 1, 0)
    IN IF \E i \in 1..MaxVarintLen64 :
            s[i] < x[i] /\ \A j \in (i + 1)..MaxVarintLen64 : s[j] = x[j]
       THEN Max64
       ELSE s

\* n += incrementBy, wrapping at 2^64
Add64(x, y) == AddFrom(x, y, 1, 0)

RECURSIVE SubFrom(_, _, _, _)
SubFrom(x, y, i, borrow) ==
    IF i > MaxVarintLen64 THEN <<>>
    ELSE LET d == x[i] - y[i] - borrow
         IN IF d < 0 THEN <<d + LimbBase(i)>> \o SubFrom(x, y, i + 1, 1)
                     ELSE <<d>> \o SubFrom(x, y, i + 1, 0)

\* n -= decrementBy, wrapping at 2^64
Sub64(x, y) == SubFrom(x, y, 1, 0)

(***************************************************************************)
(* The counter codec                                                       *)
(***************************************************************************)
\* binary.ReadUvarint: i bytes consumed so far, x the limbs gathered
RECURSIVE ReadUvarint(_, _, _)
ReadUvarint(b, i, x) ==
    IF i >= MaxVarintLen64 THEN [n |-> Zero64, err |-> ErrDecode]
    ELSE IF i + 1 > Len(b) THEN [n |-> Zero64, err |-> ErrDecode]
    ELSE LET byte == b[i + 1]
         IN IF byte < 128
            THEN IF i = MaxVarintLen64 - 1 /\ byte > 1
                 THEN [n |-> Zero64, err |-> ErrDecode]
                 ELSE [n |-> [x EXCEPT ![i + 1] = byte], err |-> ErrNil]
            ELSE ReadUvarint(b, i + 1, [x EXCEPT ![i + 1] = (byte % 128) % LimbBase(i + 1)])

BytesToUint64(b) == ReadUvarint(b, 0, Zero64)

\* the index of the most significant non-zero limb (1 for zero)
TopLimb(n) ==
    IF \E i \in 1..MaxVarintLen64 : n[i] # 0
    THEN CHOOSE i \in 1..MaxVarintLen64 :
            n[i] # 0 /\ \A j \in (i + 1)..MaxVarintLen64 : n[j] = 0
    ELSE 1

\* PutUvarint without the continuation bits
Uint64ToBytesPlain(n) == [i \in 1..MaxVarintLen64 |-> n[i]]

\* binary.PutUvarint into a zeroed buffer of MaxVarintLen64 bytes
Uint64ToBytes(n) ==
    [i \in 1..MaxVarintLen64 |->
        IF i < TopLimb(n) THEN n[i] + 128
        ELSE IF i = TopLimb(n) THEN n[i]
        ELSE 0]

(***************************************************************************)
(* container/list as a sequence of entries, front first                    *)
(***************************************************************************)
IndexOf(l, key) ==
    IF \E i \in 1..Len(l) : l[i].key = key
    THEN CHOOSE i \in 1..Len(l) : l[i].key = key
    ELSE 0

RemoveAt(l, i) ==
    IF i \in 1..Len(l) THEN SubSeq(l, 1, i - 1) \o SubSeq(l, i + 1, Len(l)) ELSE l

MoveToFront(l, i) ==
    IF i \in 1..Len(l) THEN <<l[i]>> \o RemoveAt(l, i) ELSE l

PushFront(l, e) == <<e>> \o l

Entry(key, value, cas, ttl, createdAt) ==
    [key |-> key, value |-> value, cas |-> cas, ttl |-> ttl, createdAt |-> createdAt]

NoEntry == Entry("", <<>>, 0, 0, 0)

(***************************************************************************)
(* lru.Cache                                                               *)
(***************************************************************************)
\* lruList = nil and cache = nil are isNil; a nil map reads as empty
New(maxEntries) ==
    [maxEntries |-> maxEntries, evictionHandler |-> FALSE, lruList |-> <<>>,
     cache |-> {}, casID |-> 0, isNil |-> FALSE]

WithEvictionHandler(cc) == [cc EXCEPT !.evictionHandler = TRUE]

\* what an operation hands back: the cache after it, its error, the value and
\* CAS version returned, the entries it evicted, the notifications it made
\* (stored: the entry was still in the cache when the handler ran), and
\* whether it panicked
Result(cc, err, value, cas, evicted, notes, panic) ==
    [c |-> cc, err |-> err, value |-> value, cas |-> cas,
     evicted |-> evicted, notes |-> notes, panic |-> panic]

Done(cc) == Result(cc, ErrNil, <<>>, 0, <<>>, <<>>, FALSE)
Fail(cc, err) == Result(cc, err, <<>>, 0, <<>>, <<>>, FALSE)

\* a nil pointer dereference: the call does not return
Panic(cc) == Result(cc, ErrPanic, <<>>, 0, <<>>, <<>>, TRUE)

nextCasID(cc) == [cc EXCEPT !.casID = cc.casID + 1]

\* isExpired returning false whatever the age
neverExpired(e, t) == FALSE

\* isExpired without its test for ttl == 0
isExpiredAtZero(e, t) == t - e.createdAt > e.ttl

isExpired(e, t) ==
    IF e.ttl = 0 THEN FALSE
    ELSE t - e.createdAt > e.ttl

\* removeElement without its delete(c.cache, kv.key)
removeFromListOnly(cc, i) ==
    IF i \in 1..Len(cc.lruList)
    THEN [cc EXCEPT !.lruList = RemoveAt(@, i)]
    ELSE cc

removeElement(cc, i) ==
    IF i \in 1..Len(cc.lruList)
    THEN [cc EXCEPT !.lruList = RemoveAt(@, i), !.cache = @ \ {cc.lruList[i].key}]
    ELSE cc

\* a handler called for LRU evictions only
HandleEvictionLRUOnly(cc, e, reason) ==
    IF cc.evictionHandler /\ reason = LRUEviction
    THEN <<[key |-> e.key, value |-> e.value, reason |-> reason,
            stored |-> e.key \in cc.cache /\ IndexOf(cc.lruList, e.key) # 0]>>
    ELSE <<>>

HandleEviction(cc, e, reason) ==
    IF cc.evictionHandler
    THEN <<[key |-> e.key, value |-> e.value, reason |-> reason,
            stored |-> e.key \in cc.cache /\ IndexOf(cc.lruList, e.key) # 0]>>
    ELSE <<>>

Evicted(e, reason) == <<[key |-> e.key, value |-> e.value, reason |-> reason]>>

\* Set removing the back element before it calls the handler
SetRemoveThenNotify(cc, key, value, ttl, t) ==
    IF key \in cc.cache
    THEN LET i == IndexOf(cc.lruList, key)
             c1 == nextCasID(cc)
             e == Entry(key, value, c1.casID, ttl, t)
         IN Done([c1 EXCEPT !.lruList =
                    IF i = 0 THEN @ ELSE PushFront(RemoveAt(@, i), e)])
    ELSE LET c1 == nextCasID(cc)
             e == Entry(key, value, c1.casID, ttl, t)
         IN IF cc.isNil
            THEN Panic(c1)
            ELSE LET c2 == [c1 EXCEPT !.lruList = PushFront(@, e),
                                      !.cache = @ \cup {key}]
                     n == Len(c2.lruList)
                 IN IF c2.maxEntries # 0 /\ n > c2.maxEntries
                    THEN Result(removeElement(c2, n), ErrNil, <<>>, 0,
                                Evicted(c2.lruList[n], LRUEviction),
                                HandleEviction(removeElement(c2, n), c2.lruList[n],
                                               LRUEviction),
                                FALSE)
                    ELSE Done(c2)

\* Set making room by removing an expired entry when there is one
SetSweepExpired(cc, key, value, ttl, t) ==
    IF key \in cc.cache
    THEN LET i == IndexOf(cc.lruList, key)
             c1 == nextCasID(cc)
             e == Entry(key, value, c1.casID, ttl, t)
         IN Done([c1 EXCEPT !.lruList =
                    IF i = 0 THEN @ ELSE PushFront(RemoveAt(@, i), e)])
    ELSE LET c1 == nextCasID(cc)
             e == Entry(key, value, c1.casID, ttl, t)
         IN IF cc.isNil
            THEN Panic(c1)
            ELSE LET c2 == [c1 EXCEPT !.lruList = PushFront(@, e),
                                      !.cache = @ \cup {key}]
                     n == Len(c2.lruList)
                     old == {i \in 1..n : isExpired(c2.lruList[i], t)}
                     j == IF old = {} THEN n
                          ELSE CHOOSE i \in old : \A m \in old : m <= i
                 IN IF c2.maxEntries # 0 /\ n > c2.maxEntries
                    THEN Result(removeElement(c2, j), ErrNil, <<>>, 0,
                                Evicted(c2.lruList[j], LRUEviction),
                                HandleEviction(c2, c2.lruList[j], LRUEviction),
                                FALSE)
                    ELSE Done(c2)

\* Set making room by removing the front element, the one it has just stored
SetEvictFront(cc, key, value, ttl, t) ==
    IF key \in cc.cache
    THEN LET i == IndexOf(cc.lruList, key)
             c1 == nextCasID(cc)
             e == Entry(key, value, c1.casID, ttl, t)
         IN Done([c1 EXCEPT !.lruList =
                    IF i = 0 THEN @ ELSE PushFront(RemoveAt(@, i), e)])
    ELSE LET c1 == nextCasID(cc)
             e == Entry(key, value, c1.casID, ttl, t)
         IN IF cc.isNil
            THEN Panic(c1)
            ELSE LET c2 == [c1 EXCEPT !.lruList = PushFront(@, e),
                                      !.cache = @ \cup {key}]
                     n == Len(c2.lruList)
                 IN IF c2.maxEntries # 0 /\ n > c2.maxEntries
                    THEN Result(removeElement(c2, 1), ErrNil, <<>>, 0,
                                Evicted(c2.lruList[1], LRUEviction),
                                HandleEviction(c2, c2.lruList[1], LRUEviction),
                                FALSE)
                    ELSE Done(c2)

Set(cc, key, value, ttl, t) ==
    IF key \in cc.cache
    THEN LET i == IndexOf(cc.lruList, key)
             c1 == nextCasID(cc)
             e == Entry(key, value, c1.casID, ttl, t)
         IN Done([c1 EXCEPT !.lruList =
                    IF i = 0 THEN @ ELSE PushFront(RemoveAt(@, i), e)])
    ELSE LET c1 == nextCasID(cc)
             e == Entry(key, value, c1.casID, ttl, t)
         IN IF cc.isNil
            THEN Panic(c1)
            ELSE LET c2 == [c1 EXCEPT !.lruList = PushFront(@, e),
                                      !.cache = @ \cup {key}]
                     n == Len(c2.lruList)
                 IN IF c2.maxEntries # 0 /\ n > c2.maxEntries
                    THEN Result(removeElement(c2, n), ErrNil, <<>>, 0,
                                Evicted(c2.lruList[n], LRUEviction),
                                HandleEviction(c2, c2.lruList[n], LRUEviction),
                                FALSE)
                    ELSE Done(c2)

EntryOf(cc, key) ==
    IF IndexOf(cc.lruList, key) # 0 THEN cc.lruList[IndexOf(cc.lruList, key)]
    ELSE NoEntry

\* Touch keeping the ttl the entry has
TouchKeepTtl(cc, key, ttl, t) ==
    IF key \in cc.cache
    THEN Set(cc, key, EntryOf(cc, key).value, EntryOf(cc, key).ttl, t)
    ELSE Fail(cc, ErrNotFound)

Touch(cc, key, ttl, t) ==
    IF key \in cc.cache THEN Set(cc, key, EntryOf(cc, key).value, ttl, t)
    ELSE Fail(cc, ErrNotFound)

Add(cc, key, value, ttl, t) ==
    IF key \notin cc.cache THEN Set(cc, key, value, ttl, t)
    ELSE Fail(cc, ErrExists)

\* Replace storing the item whether or not the key exists
ReplaceOrCreate(cc, key, value, ttl, t) == Set(cc, key, value, ttl, t)

Replace(cc, key, value, ttl, t) ==
    IF key \in cc.cache THEN Set(cc, key, value, ttl, t)
    ELSE Fail(cc, ErrNotFound)

\* Cas without its comparison of the versions
CasAnyVersion(cc, key, value, ttl, cas, t) ==
    IF key \in cc.cache THEN Set(cc, key, value, ttl, t)
    ELSE Fail(cc, ErrNotFound)

Cas(cc, key, value, ttl, cas, t) ==
    IF key \in cc.cache
    THEN IF EntryOf(cc, key).cas = cas THEN Set(cc, key, value, ttl, t)
         ELSE Fail(cc, ErrExists)
    ELSE Fail(cc, ErrNotFound)

\* getElement reporting an expired element without removing it
getElementKeepExpired(cc, key, t) ==
    IF key \in cc.cache
    THEN LET i == IndexOf(cc.lruList, key)
             e == EntryOf(cc, key)
         IN IF isExpired(e, t)
            THEN [c |-> cc, hit |-> FALSE, ele |-> NoEntry,
                  evicted |-> <<>>,
                  notes |-> HandleEviction(cc, e, TTLEviction)]
            ELSE [c |-> [cc EXCEPT !.lruList = MoveToFront(@, i)], hit |-> TRUE,
                  ele |-> e, evicted |-> <<>>, notes |-> <<>>]
    ELSE [c |-> cc, hit |-> FALSE, ele |-> NoEntry, evicted |-> <<>>, notes |-> <<>>]

\* hit: the element returned is not nil; ele: its entry
getElement(cc, key, t) ==
    IF key \in cc.cache
    THEN LET i == IndexOf(cc.lruList, key)
             e == EntryOf(cc, key)
         IN IF isExpired(e, t)
            THEN [c |-> removeElement(cc, i), hit |-> FALSE, ele |-> NoEntry,
                  evicted |-> Evicted(e, TTLEviction),
                  notes |-> HandleEviction(cc, e, TTLEviction)]
            ELSE [c |-> [cc EXCEPT !.lruList = MoveToFront(@, i)], hit |-> TRUE,
                  ele |-> e, evicted |-> <<>>, notes |-> <<>>]
    ELSE [c |-> cc, hit |-> FALSE, ele |-> NoEntry, evicted |-> <<>>, notes |-> <<>>]

Miss(g) == Result(g.c, ErrNotFound, <<>>, 0, g.evicted, g.notes, FALSE)

Get(cc, key, t) ==
    LET g == getElement(cc, key, t)
    IN IF g.hit THEN Result(g.c, ErrNil, g.ele.value, 0, <<>>, <<>>, FALSE)
       ELSE Miss(g)

Gets(cc, key, t) ==
    LET g == getElement(cc, key, t)
    IN IF g.hit THEN Result(g.c, ErrNil, g.ele.value, g.ele.cas, <<>>, <<>>, FALSE)
       ELSE Miss(g)

\* Cache.Append (Append is the Sequences operator)
CacheAppend(cc, key, value, ttl, t) ==
    LET g == getElement(cc, key, t)
    IN IF g.hit THEN Set(g.c, key, g.ele.value \o value, ttl, t)
       ELSE Miss(g)

\* Prepend with the operands of its append the other way round
PrependBehind(cc, key, value, ttl, t) ==
    LET g == getElement(cc, key, t)
    IN IF g.hit THEN Set(g.c, key, g.ele.value \o value, ttl, t)
       ELSE Miss(g)

Prepend(cc, key, value, ttl, t) ==
    LET g == getElement(cc, key, t)
    IN IF g.hit THEN Set(g.c, key, value \o g.ele.value, ttl, t)
       ELSE Miss(g)

\* the element found is written in place: value and cas only
Store(cc, key, n) ==
    LET c1 == nextCasID(cc)
        i == IndexOf(cc.lruList, key)
    IN Done([c1 EXCEPT !.lruList =
                IF i = 0 THEN @
                ELSE [@ EXCEPT ![i].value = Uint64ToBytes(n), ![i].cas = c1.casID]])

Increment(cc, key, incrementBy, t) ==
    LET g == getElement(cc, key, t)
    IN IF g.hit
       THEN LET d == BytesToUint64(g.ele.value)
            IN IF d.err # ErrNil THEN Fail(g.c, d.err)
               ELSE Store(g.c, key, Add64(d.n, incrementBy))
       ELSE Miss(g)

Decrement(cc, key, decrementBy, t) ==
    LET g == getElement(cc, key, t)
    IN IF g.hit
       THEN LET d == BytesToUint64(g.ele.value)
            IN IF d.err # ErrNil THEN Fail(g.c, d.err)
               ELSE Store(g.c, key, Sub64(d.n, decrementBy))
       ELSE Miss(g)

\* Delete without the list.Remove of removeElement
DeleteFromIndexOnly(cc, key) ==
    Done([cc EXCEPT !.cache = @ \ {key}])

\* Delete reporting the entry it removes to the handler, as an eviction does
DeleteNotifying(cc, key) ==
    IF key \in cc.cache
    THEN Result(removeElement(cc, IndexOf(cc.lruList, key)), ErrNil, <<>>, 0, <<>>,
                HandleEviction(cc, EntryOf(cc, key), LRUEviction), FALSE)
    ELSE Done(cc)

Delete(cc, key) ==
    IF key \in cc.cache THEN Done(removeElement(cc, IndexOf(cc.lruList, key)))
    ELSE Done(cc)

\* FlushAll without its c.cache = nil
FlushAllListOnly(cc) ==
    Done([cc EXCEPT !.lruList = <<>>, !.isNil = TRUE])

\* FlushAll starting over with a cache from New, its counter at 0
FlushAllAnew(cc) ==
    Done([New(cc.maxEntries) EXCEPT !.evictionHandler = cc.evictionHandler])

FlushAll(cc) ==
    Done([cc EXCEPT !.lruList = <<>>, !.cache = {}, !.isNil = TRUE])

(***************************************************************************)
(* The engine used directly, one operation at a time                       *)
(***************************************************************************)
Values == {<<>>, <<1>>}     \* an empty value, and the counter 1 in one byte
NewValues == {<<1>>}
Affixes == {<<2>>}
Amounts == {One64}

Mutations == {"Set", "Add", "Replace", "Cas", "Touch", "Append", "Prepend",
              "Increment", "Decrement"}
Touches == Mutations \cup {"Get", "Gets"}

Succeeded(r) == r.err = ErrNil /\ ~r.panic

\* the keys an operation took out of the cache
Removed(op, key, r) ==
    {r.evicted[i].key : i \in 1..Len(r.evicted)}
        \cup (IF op = "Delete" THEN {key} ELSE {})
        \cup (IF op = "FlushAll" THEN AllKeys ELSE {})

Written(e, t) ==
    [value |-> e.value, cas |-> e.cas, ttl |-> e.ttl, createdAt |-> e.createdAt,
     at |-> t]

Outcome(op, key, r) ==
    [op |-> op, key |-> key, err |-> r.err, value |-> r.value, cas |-> r.cas,
     notes |-> r.notes]

\* one operation op on key with outcome r, in a run of at most lim CAS ids:
\* the cache, the result and the history variables after it
Step(lim, op, key, r) ==
    LET res == r
        gone == Removed(op, key, res)
        touch == Succeeded(res) /\ op \in Touches
        wrote == Succeeded(res) /\ op \in Mutations
    IN /\ ~panicked
       /\ res.c.casID <= lim
       /\ c' = res.c
       /\ panicked' = res.panic
       /\ last' = Outcome(op, key, res)
       /\ recent' =
            LET kept == SelectSeq(recent, LAMBDA k : k \notin gone /\ ~(touch /\ k = key))
            IN IF touch THEN <<key>> \o kept ELSE kept
       /\ written' =
            [k \in AllKeys |->
                IF k \in gone THEN <<>>
                ELSE IF k = key /\ wrote THEN <<Written(EntryOf(res.c, key), now)>>
                ELSE written[k]]
       /\ assigned' = IF wrote THEN EntryOf(res.c, key).cas ELSE assigned
       /\ UNCHANGED <<now, server>>

OpSet(lim, k, v, ttl) == Step(lim, "Set", k, Set(c, k, v, ttl, now))
OpAdd(lim, k, v, ttl) == Step(lim, "Add", k, Add(c, k, v, ttl, now))
OpReplace(lim, k, v, ttl) == Step(lim, "Replace", k, Replace(c, k, v, ttl, now))
OpCas(lim, k, v, ttl, n) == Step(lim, "Cas", k, Cas(c, k, v, ttl, n, now))
OpTouch(lim, k, ttl) == Step(lim, "Touch", k, Touch(c, k, ttl, now))
OpGet(lim, k) == Step(lim, "Get", k, Get(c, k, now))
OpGets(lim, k) == Step(lim, "Gets", k, Gets(c, k, now))
OpAppend(lim, k, v, ttl) == Step(lim, "Append", k, CacheAppend(c, k, v, ttl, now))
OpPrepend(lim, k, v, ttl) == Step(lim, "Prepend", k, Prepend(c, k, v, ttl, now))
OpIncrement(lim, k, a) == Step(lim, "Increment", k, Increment(c, k, a, now))
OpDecrement(lim, k, a) == Step(lim, "Decrement", k, Decrement(c, k, a, now))
OpDelete(lim, k) == Step(lim, "Delete", k, Delete(c, k))
OpFlushAll(lim) == Step(lim, "FlushAll", "", FlushAll(c))

\* time passes
Tick ==
    /\ ~panicked
    /\ now + Nanosecond <= MaxTicks * Nanosecond
    /\ now' = now + Nanosecond
    /\ last' = [op |-> "Tick", key |-> "", err |-> ErrNil, value |-> <<>>,
                cas |-> 0, notes |-> <<>>]
    /\ UNCHANGED <<c, panicked, recent, written, assigned, server>>

\* the operations on the keys K with the ttls D, in a run of at most lim CAS ids
Engine(lim, K, D) ==
    \/ \E k \in K, v \in Values, ttl \in D : OpSet(lim, k, v, ttl)
    \/ \E k \in K, v \in NewValues, ttl \in D : OpAdd(lim, k, v, ttl)
    \/ \E k \in K, v \in NewValues, ttl \in D : OpReplace(lim, k, v, ttl)
    \/ \E k \in K, v \in NewValues, ttl \in D, n \in 0..lim : OpCas(lim, k, v, ttl, n)
    \/ \E k \in K, ttl \in D : OpTouch(lim, k, ttl)
    \/ \E k \in K : OpGet(lim, k)
    \/ \E k \in K : OpGets(lim, k)
    \/ \E k \in K, v \in Affixes, ttl \in D : OpAppend(lim, k, v, ttl)
    \/ \E k \in K, v \in Affixes, ttl \in D : OpPrepend(lim, k, v, ttl)
    \/ \E k \in K, a \in Amounts : OpIncrement(lim, k, a)
    \/ \E k \in K, a \in Amounts : OpDecrement(lim, k, a)
    \/ \E k \in K : OpDelete(lim, k)
    \/ OpFlushAll(lim)

NoOutcome ==
    [op |-> "New", key |-> "", err |-> ErrNil, value |-> <<>>, cas |-> 0,
     notes |-> <<>>]

NoResponse == [ok |-> FALSE, code |-> "", key |-> "", value |-> <<>>, cas |-> 0]
NoRequest ==
    [op |-> "", item |-> FALSE, key |-> "", value |-> <<>>, ttl |-> Zero64,
     cas |-> 0, affix |-> <<>>, amount |-> Zero64]
Clients == {1, 2}

InitServer ==
    /\ mutex = 0
    /\ pc = [p \in Clients |-> "idle"]
    /\ req = [p \in Clients |-> NoRequest]
    /\ snap = [p \in Clients |-> New(0)]
    /\ out = [p \in Clients |-> NoResponse]
    /\ lin = c
    /\ want = [p \in Clients |-> NoResponse]
    /\ won = {}

InitEngine(configs) ==
    /\ c \in configs
    /\ now = 0
    /\ panicked = FALSE
    /\ last = NoOutcome
    /\ recent = <<>>
    /\ written = [k \in AllKeys |-> <<>>]
    /\ assigned = 0

(***************************************************************************)
(* server.CacheServer: Call                                                *)
(***************************************************************************)
Operations == {"SET", "CAS", "GET", "GETS", "ADD", "REPLACE", "DELETE", "TOUCH",
               "APPEND", "PREPEND", "INCREMENT", "DECREMENT", "FLUSHALL"}

Request(op, key, value, ttl, cas, affix, amount) ==
    [op |-> op, item |-> TRUE, key |-> key, value |-> value, ttl |-> ttl,
     cas |-> cas, affix |-> affix, amount |-> amount]

\* the uint64 of a small number
RECURSIVE Uint64From(_, _)
Uint64From(n, i) ==
    IF i > MaxVarintLen64 THEN <<>>
    ELSE <<n % LimbBase(i)>> \o Uint64From(n \div LimbBase(i), i + 1)

Uint64(n) == Uint64From(n, 1)

\* the sum of the limb products x[i] * y[k - i + 1] for i..k
RECURSIVE MulAt(_, _, _, _)
MulAt(x, y, k, i) ==
    IF i > k THEN 0 ELSE x[i] * y[k - i + 1] + MulAt(x, y, k, i + 1)

RECURSIVE MulFrom(_, _, _, _)
MulFrom(x, y, k, carry) ==
    IF k > MaxVarintLen64 THEN <<>>
    ELSE LET s == MulAt(x, y, k, 1) + carry
         IN <<s % LimbBase(k)>> \o MulFrom(x, y, k + 1, s \div LimbBase(k))

\* x * y in 64 bits: the product wraps at 2^64
Mul64(x, y) == MulFrom(x, y, 1, 0)

\* the int64 with the bits of n, a time.Duration in nanoseconds: exact when
\* it is below 2^31; a negative one reads as -1 and a longer one as 2^31 - 1,
\* neither of which an entry's age reaches or leaves behind here
Int64(n) ==
    IF n[MaxVarintLen64] = 1 THEN -1
    ELSE IF n[5] < 8 /\ \A i \in 6..MaxVarintLen64 : n[i] = 0
    THEN n[1] + 128 * (n[2] + 128 * (n[3] + 128 * (n[4] + 128 * n[5])))
    ELSE 2147483647

\* time.Duration(in.Item.Ttl) * time.Second, of the uint64 ttl
Seconds(ttl) == Int64(Mul64(ttl, Uint64(Second)))

\* cacheError giving every error but ErrExists the code of ErrNotFound
cacheErrorNotFoundElse(err) ==
    IF err = ErrExists THEN "AlreadyExists" ELSE "NotFound"

\* the status code the error is returned with; any other error goes out as it is
cacheError(err) ==
    CASE err = ErrNotFound -> "NotFound"
      [] err = ErrExists -> "AlreadyExists"
      [] OTHER -> err

Item(key, value, cas) == [key |-> key, value |-> value, cas |-> cas]
NilItem == Item("", <<>>, 0)

\* cacheResponse answering an engine error with the item and no error
cacheResponseSwallow(err, item) ==
    [ok |-> TRUE, code |-> "OK", key |-> item.key, value |-> item.value,
     cas |-> item.cas]

cacheResponse(err, item) ==
    IF err # ErrNil
    THEN [ok |-> FALSE, code |-> cacheError(err), key |-> "", value |-> <<>>, cas |-> 0]
    ELSE [ok |-> TRUE, code |-> "OK", key |-> item.key, value |-> item.value,
          cas |-> item.cas]

\* what the switch of Call returns for an engine result r
Reply(r, item) ==
    IF r.panic THEN [c |-> r.c, out |-> NoResponse, panic |-> TRUE]
    ELSE [c |-> r.c, out |-> cacheResponse(r.err, item), panic |-> FALSE]

\* Call whose default branch flushes the cache before it answers
DispatchDefaultFlush(cc, in, t) ==
    IF in.op \notin Operations
    THEN [c |-> FlushAll(cc).c, panic |-> FALSE,
          out |-> [ok |-> FALSE, code |-> "Unimplemented", key |-> "",
                   value |-> <<>>, cas |-> 0]]
    ELSE IF in.op = "FLUSHALL" THEN Reply(FlushAll(cc), NilItem)
    ELSE IF ~in.item THEN [c |-> cc, out |-> NoResponse, panic |-> TRUE]
    ELSE LET key == in.key
             ttl == Seconds(in.ttl)
             r == CASE in.op = "SET" -> Set(cc, key, in.value, ttl, t)
                    [] in.op = "CAS" -> Cas(cc, key, in.value, ttl, in.cas, t)
                    [] in.op = "GET" -> Get(cc, key, t)
                    [] in.op = "GETS" -> Gets(cc, key, t)
                    [] in.op = "ADD" -> Add(cc, key, in.value, ttl, t)
                    [] in.op = "REPLACE" -> Replace(cc, key, in.value, ttl, t)
                    [] in.op = "DELETE" -> Delete(cc, key)
                    [] in.op = "TOUCH" -> Touch(cc, key, ttl, t)
                    [] in.op = "APPEND" -> CacheAppend(cc, key, in.affix, ttl, t)
                    [] in.op = "PREPEND" -> Prepend(cc, key, in.affix, ttl, t)
                    [] in.op = "INCREMENT" -> Increment(cc, key, in.amount, t)
                    [] in.op = "DECREMENT" -> Decrement(cc, key, in.amount, t)
         IN Reply(r, Item(key, r.value, r.cas))

\* the switch of Call on the cache cc at time t
Dispatch(cc, in, t) ==
    IF in.op \notin Operations
    THEN [c |-> cc, panic |-> FALSE,
          out |-> [ok |-> FALSE, code |-> "Unimplemented", key |-> "",
                   value |-> <<>>, cas |-> 0]]
    ELSE IF in.op = "FLUSHALL" THEN Reply(FlushAll(cc), NilItem)
    ELSE IF ~in.item THEN [c |-> cc, out |-> NoResponse, panic |-> TRUE]
    ELSE LET key == in.key
             ttl == Seconds(in.ttl)
             r == CASE in.op = "SET" -> Set(cc, key, in.value, ttl, t)
                    [] in.op = "CAS" -> Cas(cc, key, in.value, ttl, in.cas, t)
                    [] in.op = "GET" -> Get(cc, key, t)
                    [] in.op = "GETS" -> Gets(cc, key, t)
                    [] in.op = "ADD" -> Add(cc, key, in.value, ttl, t)
                    [] in.op = "REPLACE" -> Replace(cc, key, in.value, ttl, t)
                    [] in.op = "DELETE" -> Delete(cc, key)
                    [] in.op = "TOUCH" -> Touch(cc, key, ttl, t)
                    [] in.op = "APPEND" -> CacheAppend(cc, key, in.affix, ttl, t)
                    [] in.op = "PREPEND" -> Prepend(cc, key, in.affix, ttl, t)
                    [] in.op = "INCREMENT" -> Increment(cc, key, in.amount, t)
                    [] in.op = "DECREMENT" -> Decrement(cc, key, in.amount, t)
         IN Reply(r, Item(key, r.value, r.cas))

\* a Lock() that never waits
NeverWaits(m) == TRUE

\* s.cache.Lock() can return
Unlocked(m) == m = 0

Busy == {p \in Clients : pc[p] # "idle"}

\* a client calls Call; every call under way can still be handed a CAS id
CallStart(p, in) ==
    /\ ~panicked
    /\ pc[p] = "idle"
    /\ c.casID + Cardinality(Busy) < MaxCas + 1
    /\ pc' = [pc EXCEPT ![p] = "called"]
    /\ req' = [req EXCEPT ![p] = in]
    /\ UNCHANGED <<engine, mutex, snap, out, lin, want, won>>

\* s.cache.Lock()
CallLock(p) ==
    /\ ~panicked
    /\ pc[p] = "called"
    /\ Unlocked(mutex)
    /\ mutex' = p
    /\ pc' = [pc EXCEPT ![p] = "locked"]
    /\ UNCHANGED <<engine, req, snap, out, lin, want, won>>

\* the engine call reads the cache
CallRead(p) ==
    /\ ~panicked
    /\ pc[p] = "locked"
    /\ snap' = [snap EXCEPT ![p] = c]
    /\ pc' = [pc EXCEPT ![p] = "read"]
    /\ UNCHANGED <<engine, mutex, req, out, lin, want, won>>

\* the engine call writes the cache and the response is built; a panic runs
\* the deferred Unlock and ends the program
CallWrite(p) ==
    LET d == Dispatch(snap[p], req[p], now)
        one == Dispatch(lin, req[p], now)
    IN /\ ~panicked
       /\ pc[p] = "read"
       /\ c' = d.c
       /\ panicked' = d.panic
       /\ out' = [out EXCEPT ![p] = d.out]
       /\ snap' = [snap EXCEPT ![p] = New(0)]
       /\ lin' = one.c
       /\ want' = [want EXCEPT ![p] = one.out]
       /\ won' = IF req[p].op = "CAS" /\ d.out.ok
                 THEN won \cup {<<req[p].key, req[p].cas>>} ELSE won
       /\ pc' = [pc EXCEPT ![p] = IF d.panic THEN "dead" ELSE "ran"]
       /\ mutex' = IF d.panic THEN 0 ELSE mutex
       /\ UNCHANGED <<now, last, recent, written, assigned, req>>

\* Call returning without the deferred Unlock
CallReturnHolding(p) ==
    /\ ~panicked
    /\ pc[p] = "ran"
    /\ mutex' = mutex
    /\ pc' = [pc EXCEPT ![p] = "idle"]
    /\ req' = [req EXCEPT ![p] = NoRequest]
    /\ out' = [out EXCEPT ![p] = NoResponse]
    /\ want' = [want EXCEPT ![p] = NoResponse]
    /\ UNCHANGED <<engine, snap, lin, won>>

\* the deferred s.cache.Unlock(), and Call returns
CallReturn(p) ==
    /\ ~panicked
    /\ pc[p] = "ran"
    /\ mutex' = 0
    /\ pc' = [pc EXCEPT ![p] = "idle"]
    /\ req' = [req EXCEPT ![p] = NoRequest]
    /\ out' = [out EXCEPT ![p] = NoResponse]
    /\ want' = [want EXCEPT ![p] = NoResponse]
    /\ UNCHANGED <<engine, snap, lin, won>>

\* ttls of 2^54 and 2^55 seconds
LongTtls == {[Zero64 EXCEPT ![8] = 32], [Zero64 EXCEPT ![8] = 64]}

Requests ==
    {Request(op, "a", <<1>>, Zero64, 0, <<>>, Zero64) :
        op \in {"SET", "GET", "GETS", "ADD", "REPLACE", "DELETE", "TOUCH", "LIST"}}
    \cup {Request("SET", "b", <<>>, One64, 0, <<>>, Zero64)}
    \cup {Request("SET", "a", <<1>>, s, 0, <<>>, Zero64) : s \in LongTtls}
    \cup {Request("CAS", "a", <<3>>, Zero64, n, <<>>, Zero64) : n \in 1..MaxCas}
    \cup {Request(op, "a", <<>>, Zero64, 0, <<2>>, Zero64) : op \in {"APPEND", "PREPEND"}}
    \cup {Request(op, k, <<>>, Zero64, 0, <<>>, One64) :
                op \in {"INCREMENT", "DECREMENT"}, k \in Keys}
    \cup {[NoRequest EXCEPT !.op = op] : op \in {"FLUSHALL", "GET"}}

\* the server as main starts it: no eviction handler; here with room for one entry
InitCall ==
    /\ InitEngine({New(1)})
    /\ InitServer

NextCall ==
    \/ \E p \in Clients, in \in Requests : CallStart(p, in)
    \/ \E p \in Clients : CallLock(p)
    \/ \E p \in Clients : CallRead(p)
    \/ \E p \in Clients : CallWrite(p)
    \/ \E p \in Clients : CallReturn(p)

SpecCall == InitCall /\ [][NextCall]_vars

\* a cache of one entry that reports its evictions, two keys, and the clock
Init ==
    /\ InitEngine({WithEvictionHandler(New(1))})
    /\ InitServer

Next ==
    \/ Engine(MaxCas, Keys, Durations)
    \/ Tick

Spec == Init /\ [][Next]_vars

\* a cache of two entries and three keys: which entry goes when it is full
InitLRU ==
    /\ InitEngine({WithEvictionHandler(New(2))})
    /\ InitServer

NextLRU == Engine(MaxCas + 1, AllKeys, {0})

SpecLRU == InitLRU /\ [][NextLRU]_vars

\* an unbounded cache and two keys: entries stored side by side
InitPlain ==
    /\ InitEngine({New(0)})
    /\ InitServer

NextPlain == Engine(MaxCas + 1, Keys, {0})

SpecPlain == InitPlain /\ [][NextPlain]_vars

\* an unbounded cache, two keys and the clock, under Set and Touch
InitTouch ==
    /\ InitEngine({New(0)})
    /\ InitServer

NextTouch ==
    \/ \E k \in Keys, v \in NewValues, ttl \in Durations : OpSet(MaxCas + 1, k, v, ttl)
    \/ \E k \in Keys, ttl \in Durations : OpTouch(MaxCas + 1, k, ttl)
    \/ Tick

SpecTouch == InitTouch /\ [][NextTouch]_vars

\* an unbounded cache holding one counter, under Set, Get, Increment, Decrement
Counters ==
    {Zero64, One64, [Zero64 EXCEPT ![1] = 127], [Zero64 EXCEPT ![2] = 1],
     Top64, Max64}

CounterAmounts == {One64, Top64, Max64}

InitCounter ==
    /\ InitEngine({New(0)})
    /\ InitServer

NextCounter ==
    \/ \E n \in Counters : OpSet(MaxCas + 1, "a", Uint64ToBytes(n), 0)
    \/ OpGet(MaxCas + 1, "a")
    \/ \E a \in CounterAmounts : OpIncrement(MaxCas + 1, "a", a)
    \/ \E a \in CounterAmounts : OpDecrement(MaxCas + 1, "a", a)

SpecCounter == InitCounter /\ [][NextCounter]_vars

\* a cache of two entries with a handler, three keys and the clock, under Set
\* and Get
InitSweep ==
    /\ InitEngine({WithEvictionHandler(New(2))})
    /\ InitServer

NextSweep ==
    \/ \E k \in AllKeys, v \in NewValues, ttl \in Durations : OpSet(MaxCas + 1, k, v, ttl)
    \/ \E k \in AllKeys : OpGet(MaxCas + 1, k)
    \/ Tick

SpecSweep == InitSweep /\ [][NextSweep]_vars

\* the goroutine of a Call that holds the lock takes its next step: the
\* steps of CallRead, CallWrite and CallReturn, told by the position alone
Runs(p) ==
    /\ ~panicked
    /\ \E s \in {"read", "ran", "dead", "idle"} :
          /\ <<pc[p], s>> \in {<<"locked", "read">>, <<"read", "ran">>,
                               <<"read", "dead">>, <<"ran", "idle">>}
          /\ pc' = [pc EXCEPT ![p] = s]

\* the scheduling Go gives the goroutines of the server: a Call that is
\* running goes on running, and a Call waiting in Lock gets the mutex if it is
\* free again and again (sync.Mutex hands a starving waiter the lock)
FairCall ==
    \A p \in Clients :
        /\ SF_pc(CallLock(p))
        /\ WF_pc(Runs(p))

SpecCallFair == SpecCall /\ FairCall

(***************************************************************************)
(* Properties                                                              *)
(***************************************************************************)
Stored(cc, k) == k \in cc.cache

\* the ttl of what was written has gone by at time t
Elapsed(w, t) == w.ttl # 0 /\ t - w.createdAt > w.ttl

Mutated(o) == o.op \in Mutations /\ o.err = ErrNil

\* C1: with maxEntries > 0, after every operation the number of stored
\* entries (nodes of the list, keys of the index) is at most maxEntries
C1_Capacity ==
    c.maxEntries > 0 =>
        /\ Len(c.lruList) <= c.maxEntries
        /\ Cardinality(c.cache) <= c.maxEntries

C1_Witness ==
    /\ c.maxEntries > 0
    /\ last.op \in {"Set", "Add"}
    /\ last.notes # <<>>
    /\ Len(c.lruList) = c.maxEntries

\* C2: when a Set or Add of a new key pushes the count above maxEntries, the
\* one entry evicted is the stored entry whose most recent successful touch
\* is the oldest
C2_EvictsLeastRecentlyTouched ==
    [][(last'.op \in {"Set", "Add"} /\ c.cache \ c'.cache # {})
        => c.cache \ c'.cache = {recent[Len(recent)]}]_vars

\* C3: the CAS versions stamped by successful mutations strictly increase in
\* the order the mutations happen, Delete and FlushAll in between included,
\* so none is stamped twice
C3_CasStrictlyIncreasing ==
    [][(Mutated(last') /\ ~panicked')
        => /\ Stored(c', last'.key)
           /\ EntryOf(c', last'.key).cas > assigned
           /\ \A i \in 1..Len(c.lruList) :
                EntryOf(c', last'.key).cas > c.lruList[i].cas]_vars

\* an Add stamps 2 on the only entry before any time has passed and without
\* an eviction: the entry stamped 1 was deleted in between
C3_Witness ==
    /\ last.op = "Add"
    /\ last.err = ErrNil
    /\ last.notes = <<>>
    /\ c.evictionHandler
    /\ now = 0
    /\ Len(c.lruList) = 1
    /\ c.lruList[1].cas = 2
    /\ assigned = 2

\* C4: Cas succeeds, behaving as Set, iff the key is stored and its version
\* equals n; it fails with NotFound when the key is absent and AlreadyExists
\* when the version differs, and a failure leaves the cache as it was
C4_CasGate ==
    [][last'.op = "Cas" =>
        \A k \in Keys, v \in NewValues, ttl \in {0}, n \in 0..(MaxCas + 1) :
            OpCas(MaxCas + 1, k, v, ttl, n) =>
                IF Stored(c, k) /\ EntryOf(c, k).cas = n
                THEN /\ last'.err = ErrNil
                     /\ c' = Set(c, k, v, ttl, now).c
                     /\ c'.lruList[1] = Entry(k, v, c.casID + 1, ttl, now)
                ELSE /\ last'.err = IF Stored(c, k) THEN ErrExists ELSE ErrNotFound
                     /\ c' = c]_vars

C4_Witness ==
    /\ last.op = "Cas"
    /\ last.err = ErrExists
    /\ Stored(c, last.key)
    /\ Len(c.lruList) = 2
    /\ c.lruList[2].key = last.key

\* C5: of the CAS requests made through Call for one key with one expected
\* version, in any interleaving, at most one succeeds; every other one fails
\* with AlreadyExists or NotFound
C5_OneCasWins ==
    [][\A p \in Clients :
        (CallWrite(p) /\ req[p].op = "CAS" /\ <<req[p].key, req[p].cas>> \in won)
            => /\ ~out'[p].ok
               /\ out'[p].code \in {"AlreadyExists", "NotFound"}]_vars

C5_Witness ==
    \E p \in Clients :
        /\ pc[p] = "ran"
        /\ req[p].op = "CAS"
        /\ <<req[p].key, req[p].cas>> \in won
        /\ out[p].code = "AlreadyExists"

\* C6: at most one Call is inside the engine at any time, reads included, and
\* it holds the lock from before the engine call until the response is built
InEngine == {p \in Clients : pc[p] \in {"locked", "read", "ran"}}

C6_MutualExclusion ==
    /\ Cardinality(InEngine) <= 1
    /\ \A p \in InEngine : mutex = p

C6_Witness ==
    \E p, q \in Clients :
        /\ pc[p] = "read"
        /\ req[p].op = "GET"
        /\ pc[q] = "called"

\* C7: the responses and the final cache are those of the same engine
\* operations run one at a time, each at a point between its call and its
\* return
C7_Linearizable ==
    /\ \A p \in Clients : pc[p] = "ran" => out[p] = want[p]
    /\ (\A p \in Clients : pc[p] \in {"idle", "called"}) => c = lin

C7_Witness ==
    \E p, q \in Clients :
        /\ pc[p] = "ran"
        /\ pc[q] = "called"
        /\ req[p].op = "INCREMENT"
        /\ out[p].ok
        /\ c.casID >= 2

\* C8: Get returns the value stored by the most recent successful mutation of
\* the key, and Gets its CAS version too, unless the key has since been
\* deleted, flushed, evicted or has expired; then both fail with NotFound
C8_GetReturnsLastWrite ==
    [][last'.op \in {"Get", "Gets"} =>
        \A k \in Keys :
            (OpGet(MaxCas, k) \/ OpGets(MaxCas, k)) =>
                IF written[k] # <<>> /\ ~Elapsed(written[k][1], now)
                THEN /\ last'.err = ErrNil
                     /\ last'.value = written[k][1].value
                     /\ last'.op = "Gets" => last'.cas = written[k][1].cas
                ELSE last'.err = ErrNotFound]_vars

C8_Witness ==
    /\ last.op = "Gets"
    /\ last.err = ErrNil
    /\ last.cas = 2
    /\ last.value = <<1, 2>>

\* C9: Set never fails; afterwards the key holds the given value and ttl with
\* createdAt = now and a fresh CAS version at the front of the list, and every
\* other entry is as it was and in the same order, except the back-most one
\* removed when a new key exceeds the capacity
C9_SetStores ==
    [][\A k \in Keys, v \in Values, ttl \in Durations :
        OpSet(MaxCas, k, v, ttl) =>
            LET others == SelectSeq(c.lruList, LAMBDA e : e.key # k)
                rest == IF Stored(c, k) THEN others
                        ELSE IF c.maxEntries # 0 /\ Len(c.lruList) + 1 > c.maxEntries
                             THEN SubSeq(c.lruList, 1, Len(c.lruList) - 1)
                             ELSE c.lruList
            IN /\ ~panicked'
               /\ last'.err = ErrNil
               /\ c'.casID > assigned
               /\ c'.lruList = <<Entry(k, v, c'.casID, ttl, now)>> \o rest]_vars

\* C10: an entry written with ttl = t > 0 is returned by Get and Gets at every
\* time less than t after its last write, and every access at a time t or
\* more after its last write reports NotFound
C10_TtlWindow ==
    [][\A k \in Keys :
        ((OpGet(MaxCas, k) \/ OpGets(MaxCas, k))
            /\ written[k] # <<>> /\ written[k][1].ttl > 0) =>
            IF now - written[k][1].at < written[k][1].ttl
            THEN last'.err = ErrNil
            ELSE last'.err = ErrNotFound]_vars

\* the notification the handler gets for the entry e
Note(e, reason) == [key |-> e.key, value |-> e.value, reason |-> reason, stored |-> TRUE]

Readers == {"Get", "Gets", "Append", "Prepend", "Increment", "Decrement"}

\* C11: when Get, Gets, Append, Prepend, Increment or Decrement reaches an
\* entry whose ttl has elapsed, the entry leaves the index and the list, the
\* handler (if set) is called once with its key, value and TTLEviction, and
\* the operation fails with NotFound
C11_ExpiredOnAccess ==
    [][(last'.op \in Readers /\ Stored(c, last'.key)
            /\ Elapsed(EntryOf(c, last'.key), now)) =>
        LET k == last'.key
        IN /\ ~Stored(c', k)
           /\ IndexOf(c'.lruList, k) = 0
           /\ Len(c'.lruList) = Len(c.lruList) - 1
           /\ last'.notes = IF c.evictionHandler
                             THEN <<Note(EntryOf(c, k), TTLEviction)>> ELSE <<>>
           /\ last'.err = ErrNotFound]_vars

C11_Witness ==
    /\ last.op = "Increment"
    /\ last.err = ErrNotFound
    /\ Len(last.notes) = 1
    /\ last.notes[1].reason = TTLEviction
    /\ last.notes[1].key = last.key
    /\ ~Stored(c, last.key)

\* C12: Add of an absent key stores the item as Set does; Add of a stored key
\* fails with AlreadyExists and leaves the cache as it was
C12_AddStores ==
    [][last'.op = "Add" =>
        \A k \in Keys, v \in NewValues, ttl \in {0} :
            OpAdd(MaxCas + 1, k, v, ttl) =>
                IF ~Stored(c, k)
                THEN /\ ~panicked'
                     /\ last'.err = ErrNil
                     /\ c'.lruList = <<Entry(k, v, c.casID + 1, ttl, now)>> \o c.lruList
                     /\ c'.cache = c.cache \cup {k}
                ELSE /\ last'.err = ErrExists
                     /\ c' = c]_vars

\* C13: Replace of an absent key fails with NotFound and a following Get is
\* NotFound; Replace of a stored key behaves as Set and a following Get
\* returns the new value
C13_ReplaceGate ==
    [][last'.op = "Replace" =>
        \A k \in Keys, v \in NewValues, ttl \in Durations :
            OpReplace(MaxCas, k, v, ttl) =>
                IF ~Stored(c, k)
                THEN /\ last'.err = ErrNotFound
                     /\ c' = c
                     /\ Get(c', k, now).err = ErrNotFound
                ELSE /\ last'.err = ErrNil
                     /\ c' = Set(c, k, v, ttl, now).c
                     /\ EntryOf(c', k) = Entry(k, v, c.casID + 1, ttl, now)
                     /\ Get(c', k, now).err = ErrNil
                     /\ Get(c', k, now).value = v]_vars

C13_Witness ==
    /\ last.op = "Replace"
    /\ last.err = ErrNotFound
    /\ ~Stored(c, last.key)
    /\ c.cache # {}

\* C14: Replace of a key whose entry has a non-zero ttl that has elapsed fails
\* with NotFound and does not store the new value
C14_ReplaceExpired ==
    [][(last'.op = "Replace" /\ Stored(c, last'.key)
            /\ Elapsed(EntryOf(c, last'.key), now)) =>
        /\ last'.err = ErrNotFound
        /\ c'.casID = c.casID
        /\ \A i \in 1..Len(c'.lruList) :
              c'.lruList[i].key = last'.key => c'.lruList[i] = EntryOf(c, last'.key)]_vars

\* C15: after FlushAll a Set or Add of any key succeeds and the key is stored
\* with the value given, as in a cache from New
C15_FlushAllUsable ==
    [][(last.op = "FlushAll" /\ last'.op \in {"Set", "Add"}) =>
        /\ ~panicked'
        /\ last'.err = ErrNil
        /\ Stored(c', last'.key)
        /\ Get(c', last'.key, now).err = ErrNil]_vars

\* C16: FlushAll leaves no key stored, and on a key that is not stored Get,
\* Gets, Touch, Replace, Cas, Append, Prepend, Increment and Decrement fail
\* with NotFound and Delete does nothing, so after FlushAll each of them
\* fails on every key until the key is stored again
C16_FlushAllEmpties ==
    [][/\ last'.op = "FlushAll" =>
            /\ c'.cache = {}
            /\ c'.lruList = <<>>
            /\ \A k \in AllKeys : written'[k] = <<>>
       /\ (last'.op \in (Touches \ {"Set", "Add"}) /\ written[last'.key] = <<>>) =>
            /\ last'.err = ErrNotFound
            /\ c' = c
            /\ written'[last'.key] = <<>>
       /\ (last'.op = "Delete" /\ written[last'.key] = <<>>) =>
            /\ last'.err = ErrNil
            /\ c' = c
            /\ written'[last'.key] = <<>>]_vars

C16_Witness ==
    /\ c.isNil
    /\ c.casID > 0
    /\ last.op = "Touch"
    /\ last.err = ErrNotFound

\* C17: Delete removes the key if it is stored and does nothing, without an
\* error, if it is not; afterwards Get of the key is NotFound, every other
\* entry is as it was and in the same order, and casID is unchanged
C17_DeleteFrame ==
    [][last'.op = "Delete" =>
        LET k == last'.key
        IN /\ last'.err = ErrNil
           /\ c'.lruList = SelectSeq(c.lruList, LAMBDA e : e.key # k)
           /\ c'.cache = c.cache \ {k}
           /\ c'.casID = c.casID
           /\ Get(c', k, now).err = ErrNotFound]_vars

C17_Witness ==
    /\ last.op = "Delete"
    /\ ~Stored(c, last.key)
    /\ Len(c.lruList) = 1
    /\ c.lruList[1].cas = 1
    /\ c.casID = 2

\* C18: when a Set of a new key exceeds the capacity, the handler is called
\* with the key and value of the back-most entry and LRUEviction while that
\* entry is still stored, before Set returns
C18_NotifiedBeforeRemoval ==
    [][(last'.op \in {"Set", "Add"} /\ last'.err = ErrNil /\ ~Stored(c, last'.key)
            /\ c.maxEntries # 0 /\ Len(c.lruList) = c.maxEntries
            /\ c.evictionHandler) =>
        /\ last'.notes = <<Note(c.lruList[Len(c.lruList)], LRUEviction)>>
        /\ ~Stored(c', c.lruList[Len(c.lruList)].key)]_vars

C18_Witness ==
    /\ last.op = "Set"
    /\ Len(last.notes) = 1
    /\ last.notes[1].reason = LRUEviction
    /\ last.notes[1].stored
    /\ Len(c.lruList) = 2

\* C19: with a handler set, a call notifies exactly the entries it evicts (by
\* LRU or TTL), once each with the value they held, and none that is still
\* stored when the call returns
C19_NotifiedOncePerEviction ==
    [][(c.evictionHandler /\ last'.op \notin {"Delete", "FlushAll", "Tick"}) =>
        LET gone == c.cache \ c'.cache
            n == last'.notes
        IN /\ Len(n) = Cardinality(gone)
           /\ {n[i].key : i \in 1..Len(n)} = gone
           /\ \A i \in 1..Len(n) :
                /\ n[i].value = EntryOf(c, n[i].key).value
                /\ n[i].reason \in {LRUEviction, TTLEviction}
                /\ ~Stored(c', n[i].key)]_vars

C19_Witness ==
    /\ last.op = "Gets"
    /\ Len(last.notes) = 1
    /\ last.notes[1].reason = TTLEviction
    /\ c.cache = {}

\* C20: Delete and FlushAll never call the handler, whatever they remove
C20_NoNoteOnDelete ==
    [][last'.op \in {"Delete", "FlushAll"} => last'.notes = <<>>]_vars

C20_Witness ==
    /\ c.evictionHandler
    /\ last.op = "Delete"
    /\ c.cache = {}
    /\ c.casID = 1
    /\ now = MaxTicks * Nanosecond

\* C21: each successful Set, Add, Replace, Cas, Touch, Append, Prepend,
\* Increment or Decrement advances casID by exactly 1 and stamps the entry
\* with the new value, the n-th one with n; every other operation and every
\* failed one leaves casID as it was
C21_CounterStep ==
    [][IF Mutated(last')
       THEN /\ c'.casID = c.casID + 1
            /\ EntryOf(c', last'.key).cas = c'.casID
            /\ assigned' = assigned + 1
            /\ assigned' = c'.casID
       ELSE c'.casID = c.casID]_vars

\* C22: Touch of a stored key keeps the value, sets the ttl given with
\* createdAt = now, stamps a fresh version and moves the key to the front;
\* Touch of an absent key fails with NotFound and changes nothing
C22_TouchRearms ==
    [][last'.op = "Touch" =>
        \A k \in Keys, ttl \in Durations :
            OpTouch(MaxCas + 1, k, ttl) =>
                IF Stored(c, k)
                THEN /\ last'.err = ErrNil
                     /\ c'.lruList =
                            <<Entry(k, EntryOf(c, k).value, c.casID + 1, ttl, now)>>
                                \o SelectSeq(c.lruList, LAMBDA e : e.key # k)
                     /\ c'.cache = c.cache
                ELSE /\ last'.err = ErrNotFound
                     /\ c' = c]_vars

C22_Witness ==
    /\ last.op = "Touch"
    /\ last.err = ErrNil
    /\ Len(c.lruList) = 2
    /\ c.lruList[1].key = last.key
    /\ c.lruList[1].cas = 3
    /\ c.lruList[1].ttl = 0
    /\ c.lruList[1].createdAt = Nanosecond
    /\ c.lruList[2].cas = 2

\* C23: on a stored, unexpired key holding old, Append of s makes a following
\* Get return old followed by s and Prepend of p makes it return p followed
\* by old, the entry having the ttl given; on an absent key both fail with
\* NotFound and store nothing
C23_AppendPrepend ==
    [][last'.op \in {"Append", "Prepend"} =>
        \A k \in Keys, v \in Affixes, ttl \in Durations :
            (OpAppend(MaxCas, k, v, ttl) \/ OpPrepend(MaxCas, k, v, ttl)) =>
                LET old == EntryOf(c, k).value
                IN IF Stored(c, k) /\ ~Elapsed(EntryOf(c, k), now)
                   THEN /\ last'.err = ErrNil
                        /\ Get(c', k, now).err = ErrNil
                        /\ Get(c', k, now).value =
                              IF last'.op = "Append" THEN old \o v ELSE v \o old
                        /\ EntryOf(c', k).ttl = ttl
                   ELSE ~Stored(c, k) =>
                        /\ last'.err = ErrNotFound
                        /\ c' = c]_vars

C23_Witness ==
    /\ last.op = "Prepend"
    /\ last.err = ErrNil
    /\ EntryOf(c, last.key).value = <<2, 1>>
    /\ EntryOf(c, last.key).ttl = Nanosecond

\* C30: an entry with ttl = 0 is never reported NotFound and never removed
\* because time has passed: it leaves the cache only through Delete, FlushAll
\* or an LRU eviction
C30_ZeroTtlStays ==
    [][\A k \in Keys :
        (Stored(c, k) /\ EntryOf(c, k).ttl = 0) =>
            /\ (last'.op \in Readers /\ last'.key = k) => last'.err # ErrNotFound
            /\ ~Stored(c', k) =>
                  \/ last'.op \in {"Delete", "FlushAll"}
                  \/ /\ last'.op \in {"Set", "Add"}
                     /\ last'.key # k
                     /\ last'.notes = <<Note(EntryOf(c, k), LRUEviction)>>]_vars

C30_Witness ==
    /\ last.op = "Get"
    /\ last.err = ErrNil
    /\ now = MaxTicks * Nanosecond
    /\ EntryOf(c, last.key).ttl = 0
    /\ EntryOf(c, last.key).createdAt = 0

\* the uint64 equal to h * 2^63 + k modulo 2^64, for h in {0, 1} and an
\* integer k with |k| < 128^2, written without the machine's addition:
\* a negative k is the complement of -k - 1
Mod64(h, k) ==
    LET m == IF k >= 0 THEN k ELSE -k - 1
        low == [i \in 1..MaxVarintLen64 |->
                   IF i = 1 THEN m % 128
                   ELSE IF i = 2 THEN (m \div 128) % 128
                   ELSE 0]
    IN [i \in 1..MaxVarintLen64 |->
           IF i = MaxVarintLen64 THEN (h + (IF k < 0 THEN 1 ELSE 0)) % 2
           ELSE IF k >= 0 THEN low[i]
           ELSE 127 - low[i]]

\* the h and the k of a uint64 that is within 128^2 of 0 or of 2^63
Near(n) ==
    /\ n[9] \in {0, 127}
    /\ \A i \in 3..9 : n[i] = n[9]

High(n) == IF n[9] = 0 THEN n[MaxVarintLen64] ELSE 1 - n[MaxVarintLen64]

Low(n) ==
    IF n[9] = 0 THEN n[1] + 128 * n[2]
    ELSE -(1 + (127 - n[1]) + 128 * (127 - n[2]))

\* C24: on a stored counter n, Increment by a stores the encoding of
\* (n + a) mod 2^64 and Decrement by a the encoding of (n - a) mod 2^64, and
\* Increment by a followed by Decrement by a (and the other way round)
\* stores the encoding of n again, also when the sum or difference wraps
C24_WrappingCounter ==
    [][last'.op \in {"Increment", "Decrement"} =>
        \A a \in CounterAmounts :
            (OpIncrement(MaxCas + 1, "a", a) \/ OpDecrement(MaxCas + 1, "a", a)) =>
                LET old == EntryOf(c, "a").value
                    n == BytesToUint64(old).n
                    up == last'.op = "Increment"
                    back == IF up THEN Decrement(c', "a", a, now)
                            ELSE Increment(c', "a", a, now)
                IN Stored(c, "a") =>
                    /\ Near(n) /\ Near(a)
                    /\ Mod64(High(n), Low(n)) = n
                    /\ last'.err = ErrNil
                    /\ EntryOf(c', "a").value =
                          Uint64ToBytes(Mod64(High(n) + High(a),
                                              IF up THEN Low(n) + Low(a)
                                              ELSE Low(n) - Low(a)))
                    /\ back.err = ErrNil
                    /\ EntryOf(back.c, "a").value = old]_vars

\* an Increment by a non-zero amount has stored zero: the sum wrapped
C24_Witness ==
    /\ last.op = "Increment"
    /\ last.err = ErrNil
    /\ Zero64 \notin CounterAmounts
    /\ EntryOf(c, "a").value = Uint64ToBytes(Zero64)
    /\ c.casID = 2

\* C25: BytesToUint64(Uint64ToBytes(n)) returns n and no error, for the
\* counters given to Set and for every counter Increment or Decrement stores
C25_CodecRoundTrip ==
    [][/\ \A n \in Counters :
            OpSet(MaxCas + 1, "a", Uint64ToBytes(n), 0) =>
                BytesToUint64(EntryOf(c', "a").value) = [n |-> n, err |-> ErrNil]
       /\ \A a \in CounterAmounts :
            /\ (OpIncrement(MaxCas + 1, "a", a) /\ last'.err = ErrNil) =>
                  BytesToUint64(EntryOf(c', "a").value) =
                     [n |-> Add64(BytesToUint64(EntryOf(c, "a").value).n, a),
                      err |-> ErrNil]
            /\ (OpDecrement(MaxCas + 1, "a", a) /\ last'.err = ErrNil) =>
                  BytesToUint64(EntryOf(c', "a").value) =
                     [n |-> Sub64(BytesToUint64(EntryOf(c, "a").value).n, a),
                      err |-> ErrNil]]_vars

\* the largest counter, ten bytes long, was stored and read back
C25_Witness ==
    /\ last.op = "Get"
    /\ last.err = ErrNil
    /\ Len(last.value) = MaxVarintLen64
    /\ last.value[MaxVarintLen64] = 1
    /\ BytesToUint64(last.value) = [n |-> Max64, err |-> ErrNil]
    /\ c.casID = 1

\* the result of the engine method a request names, on the cache cc at time t
Called(cc, in, t) ==
    CASE in.op = "SET" -> Set(cc, in.key, in.value, Seconds(in.ttl), t)
      [] in.op = "CAS" -> Cas(cc, in.key, in.value, Seconds(in.ttl), in.cas, t)
      [] in.op = "GET" -> Get(cc, in.key, t)
      [] in.op = "GETS" -> Gets(cc, in.key, t)
      [] in.op = "ADD" -> Add(cc, in.key, in.value, Seconds(in.ttl), t)
      [] in.op = "REPLACE" -> Replace(cc, in.key, in.value, Seconds(in.ttl), t)
      [] in.op = "DELETE" -> Delete(cc, in.key)
      [] in.op = "TOUCH" -> Touch(cc, in.key, Seconds(in.ttl), t)
      [] in.op = "APPEND" -> CacheAppend(cc, in.key, in.affix, Seconds(in.ttl), t)
      [] in.op = "PREPEND" -> Prepend(cc, in.key, in.affix, Seconds(in.ttl), t)
      [] in.op = "INCREMENT" -> Increment(cc, in.key, in.amount, t)
      [] in.op = "DECREMENT" -> Decrement(cc, in.key, in.amount, t)
      [] in.op = "FLUSHALL" -> FlushAll(cc)

\* C26: a Call that returns answers with success exactly when the engine
\* operation returned no error, with the not-found kind exactly when it
\* returned ErrNotFound and with the already-exists kind exactly when it
\* returned ErrExists
C26_ErrorsMapped ==
    [][\A p \in Clients :
        (CallWrite(p) /\ req[p].op \in Operations /\ ~panicked') =>
            LET e == Called(c, req[p], now).err
            IN /\ out'[p].ok <=> e = ErrNil
               /\ out'[p].code = "OK" <=> e = ErrNil
               /\ out'[p].code = "NotFound" <=> e = ErrNotFound
               /\ out'[p].code = "AlreadyExists" <=> e = ErrExists]_vars

C26_Witness ==
    \E p \in Clients :
        /\ pc[p] = "ran"
        /\ req[p].op = "ADD"
        /\ ~out[p].ok
        /\ out[p].code = "AlreadyExists"
        /\ c.cache = {"a"}

C28_UnknownOperation ==
    [][\A p \in Clients :
        (CallWrite(p) /\ req[p].op \notin Operations) =>
            /\ ~out'[p].ok
            /\ out'[p].code = "Unimplemented"
            /\ c' = c
            /\ ~panicked']_vars

C28_Witness ==
    \E p \in Clients :
        /\ pc[p] = "ran"
        /\ req[p].op = "LIST"
        /\ out[p].code = "Unimplemented"
        /\ c.cache = {"a"}
        /\ c.casID = MaxCas

\* C29: a Call that ends, with a response of any kind or by a panic, held
\* the lock and leaves it free; a Call that has ended or has not yet locked
\* never holds it
C29_LockReleased ==
    /\ [][\A p \in Clients :
            (pc[p] \in {"read", "ran"} /\ pc'[p] \in {"idle", "dead"}) =>
                (mutex = p /\ mutex' = 0)]_vars
    /\ [](\A p \in Clients : pc[p] \in {"idle", "called", "dead"} => mutex # p)

\* the Call that stored an entry has ended and a later Call holds the lock
C29_Witness ==
    \E p, q \in Clients :
        /\ pc[p] = "idle"
        /\ pc[q] = "locked"
        /\ mutex = q
        /\ c.casID = 1
        /\ c.cache = {"a"}

\* C31: on a key whose entry has a non-zero ttl that has elapsed, Add succeeds
\* and stores the new value as Set would, and Cas and Touch fail with NotFound
\* and leave the expired entry as it was
C31_ExpiredIsAbsent ==
    [][(last'.op \in {"Add", "Cas", "Touch"} /\ Stored(c, last'.key)
            /\ Elapsed(EntryOf(c, last'.key), now)) =>
        IF last'.op = "Add"
        THEN /\ last'.err = ErrNil
             /\ EntryOf(c', last'.key).cas = c.casID + 1
             /\ EntryOf(c', last'.key).createdAt = now
        ELSE /\ last'.err = ErrNotFound
             /\ c'.casID = c.casID
             /\ \A i \in 1..Len(c'.lruList) :
                   c'.lruList[i].key = last'.key =>
                       c'.lruList[i] = EntryOf(c, last'.key)]_vars

\* C32: a successful Increment or Decrement of an entry with ttl > 0 sets the
\* entry's createdAt to the time of the call
C32_CounterRefreshes ==
    [][(last'.op \in {"Increment", "Decrement"} /\ last'.err = ErrNil
            /\ EntryOf(c', last'.key).ttl > 0) =>
        EntryOf(c', last'.key).createdAt = now]_vars

\* C33: Increment or Decrement of a stored, unexpired key whose value is not
\* an encoded counter fails with the decode error and leaves the list, the
\* index and casID as they were
C33_DecodeFailureFrame ==
    [][(last'.op \in {"Increment", "Decrement"} /\ Stored(c, last'.key)
            /\ ~Elapsed(EntryOf(c, last'.key), now)
            /\ BytesToUint64(EntryOf(c, last'.key).value).err # ErrNil) =>
        /\ last'.err = ErrDecode
        /\ c' = c]_vars

\* C34: the passing of time removes nothing, and in a full cache holding an
\* entry whose ttl has elapsed a Set of a new key evicts the entry at the back
\* of the list, live or not, and keeps every other entry, the expired one too
C34_ExpiredCounts ==
    [][/\ last'.op = "Tick" => c' = c
       /\ last'.op = "Set" =>
            \A k \in AllKeys, v \in NewValues, ttl \in Durations :
                (/\ OpSet(MaxCas + 1, k, v, ttl)
                 /\ ~Stored(c, k)
                 /\ Len(c.lruList) = c.maxEntries
                 /\ \E i \in 1..Len(c.lruList) : Elapsed(c.lruList[i], now)) =>
                    LET n == Len(c.lruList)
                    IN /\ c'.lruList = <<Entry(k, v, c.casID + 1, ttl, now)>>
                                          \o SubSeq(c.lruList, 1, n - 1)
                       /\ c'.cache = (c.cache \cup {k}) \ {c.lruList[n].key}
                       /\ last'.notes = <<Note(c.lruList[n], LRUEviction)>>]_vars

\* a Set into the full cache has evicted one entry and the entry it kept is
\* one whose ttl has elapsed
C34_Witness ==
    /\ last.op = "Set"
    /\ last.err = ErrNil
    /\ Len(last.notes) = 1
    /\ last.notes[1].reason = LRUEviction
    /\ Len(c.lruList) = c.maxEntries
    /\ c.lruList[1].key = last.key
    /\ Elapsed(c.lruList[2], now)
    /\ c.lruList[2].cas = 2

\* C35: the index and the list hold the same keys: every key of the index is
\* the key of exactly one node, every node's key is in the index, and no two
\* nodes have the same key
C35_IndexMatchesList ==
    /\ \A k \in c.cache :
          Cardinality({i \in 1..Len(c.lruList) : c.lruList[i].key = k}) = 1
    /\ \A i \in 1..Len(c.lruList) : c.lruList[i].key \in c.cache
    /\ \A i, j \in 1..Len(c.lruList) :
          c.lruList[i].key = c.lruList[j].key => i = j
    /\ Cardinality(c.cache) = Len(c.lruList)

\* a Set into the full cache has evicted an entry and two keys are stored
C35_Witness ==
    /\ last.op \in {"Set", "Add"}
    /\ Len(last.notes) = 1
    /\ Len(c.lruList) = 2
    /\ Cardinality(c.cache) = 2
    /\ last.notes[1].key \notin c.cache
    /\ c.casID = MaxCas + 1

\* C36: a Call whose request carries no item returns a response or an error
\* and does not end the server
C36_NoItemNotFatal ==
    [][\A p \in Clients :
        (CallWrite(p) /\ ~req[p].item) =>
            /\ ~panicked'
            /\ pc'[p] = "ran"
            /\ out'[p] # NoResponse]_vars

\* C37: a SET with a ttl of s > 0 seconds stores an entry with a ttl above
\* zero, which a GET at the same instant finds
C37_TtlConversion ==
    [][\A p \in Clients :
        (CallWrite(p) /\ req[p].op = "SET" /\ req[p].ttl # Zero64 /\ ~panicked') =>
            /\ EntryOf(c', req[p].key).ttl > 0
            /\ Get(c', req[p].key, now).err = ErrNil]_vars

\* C38: each successful INCREMENT adds its amount, modulo 2^64, to the counter
\* as it is when the INCREMENT writes, whatever other Calls are under way, and
\* stamps it with a CAS id no other write has: no increment is lost
C38_NoLostIncrement ==
    [][\A p \in Clients :
        (CallWrite(p) /\ req[p].op = "INCREMENT" /\ out'[p].ok) =>
            LET k == req[p].key
                n == BytesToUint64(EntryOf(c, k).value).n
                a == req[p].amount
            IN /\ Near(n) /\ Near(a)
               /\ EntryOf(c', k).value =
                     Uint64ToBytes(Mod64(High(n) + High(a), Low(n) + Low(a)))
               /\ c'.casID = c.casID + 1
               /\ EntryOf(c', k).cas = c'.casID
               /\ EntryOf(c, k).cas < c'.casID]_vars

\* one INCREMENT has added its 1 to the counter 1 while another INCREMENT of
\* the same key waits for the lock
C38_Witness ==
    \E p, q \in Clients :
        /\ pc[p] = "ran"
        /\ req[p].op = "INCREMENT"
        /\ out[p].ok
        /\ pc[q] = "called"
        /\ req[q].op = "INCREMENT"
        /\ req[q].key = req[p].key
        /\ EntryOf(c, req[p].key).value = Uint64ToBytes(Uint64(2))
        /\ c.casID = 2

\* C39: every Call that has started returns
C39_CallsReturn ==
    \A p \in Clients : (pc[p] = "called") ~> (pc[p] = "idle")

====
